---- MODULE Spec2Model ----
(***************************************************************************)
(* Session lifecycle of encrypted_notifications.matrix_nio.MatrixNio:      *)
(* the credentials file on disk, the AsyncClient the instance holds, and   *)
(* the coroutines start / login / load_and_sync_client / send_message /    *)
(* close, cut at their await points.  The matrix-nio client is the         *)
(* external collaborator: every awaited call on it returns a success       *)
(* response, returns an error response, or raises.                         *)
(***************************************************************************)
EXTENDS Integers, Sequences, FiniteSets, TLC

\* ------------------------------------------------------------------ bounds
MaxStarts == 2      \* start() calls per process slot, over all its restarts
MaxSends == 1       \* send_message() calls per process slot
MaxRestarts == 1    \* process restarts per process slot
MaxCloses == 1      \* close() calls per process slot

Procs == {1, 2}     \* process slots sharing one store directory
Msgs == {"hello"}

\* --------------------------------------------------------- python values
\* An Optional[str]: None, or a str with its characters
None == [py |-> "None", s |-> ""]
Str(s) == [py |-> "str", s |-> s]
Falsy(v) == v.py = "None" \/ v.s = ""       \* `not v`
PyOr(a, b) == IF Falsy(a) THEN b ELSE a     \* `a or b`

USERNAME == Str("@bot:matrix.org")

\* ------------------------------------------------------------------ JSON
\* A JSON value is null or a string; a file is absent, unparseable text
\* (an empty file included), a JSON document that is no object, or a JSON
\* object given by its members in file order.
JNull == [j |-> "null", s |-> ""]
JStr(s) == [j |-> "str", s |-> s]

json_dump_value(v) == IF v.py = "None" THEN JNull ELSE JStr(v.s)
json_load_value(jv) == IF jv.j = "null" THEN None ELSE Str(jv.s)

Member(k, v) == [key |-> k, val |-> v]

Absent == [st |-> "absent", members |-> <<>>]
Invalid == [st |-> "invalid", members |-> <<>>]
Truncated == [st |-> "truncated", members |-> <<>>]   \* emptied by open(..., "w")
Unread == [st |-> "unread", members |-> <<>>]         \* no load has read yet
NotObject == [st |-> "array", members |-> <<>>]
Object(ms) == [st |-> "object", members |-> ms]

\* json.dump(creds, f) of the dict built in save_credentials
json_dump(access_token, device_id, user_id) ==
    Object(<< Member("access_token", json_dump_value(access_token)),
              Member("device_id", json_dump_value(device_id)),
              Member("user_id", json_dump_value(user_id)) >>)

\* the number of characters json.dump writes for a value, for an object
json_len_value(jv) == IF jv.j = "null" THEN 4 ELSE Len(jv.s) + 2

RECURSIVE json_len_members(_)
json_len_members(ms) ==
    IF ms = <<>> THEN 0
    ELSE Len(Head(ms).key) + json_len_value(Head(ms).val) + json_len_members(Tail(ms))

\* what a file holds after `mine` was written at offset 0 through a
\* descriptor opened before the present content was written: `mine` when it
\* covers that content, else `mine` followed by the rest of that content,
\* which no longer parses; over text of unknown length, either
Overlay(existing, mine) ==
    IF existing.st = "object"
    THEN IF json_len_members(existing.members) > json_len_members(mine.members)
         THEN {Invalid} ELSE {mine}
    ELSE IF existing.st = "invalid" THEN {mine, Invalid}
    ELSE {mine}

\* creds.get(key) on the dict json.load built: the last member of that key
\* wins, a missing key gives None
dict_get(members, key) ==
    LET idx == {i \in DOMAIN members : members[i].key = key}
    IN  IF idx = {} THEN None
        ELSE json_load_value(members[CHOOSE i \in idx : \A k \in idx : k <= i].val)

\* ------------------------------------------------------------ the client
NoClient == [live |-> FALSE, access_token |-> None, device_id |-> None,
             user_id |-> None, store_loaded |-> FALSE, synced |-> FALSE,
             closed |-> FALSE]

\* the login responses the homeserver can give
Reply(kind) == [kind |-> kind, access_token |-> None, device_id |-> None,
                user_id |-> None]
LoginOk(t, d, u) == [kind |-> "LoginResponse", access_token |-> Str(t),
                     device_id |-> Str(d), user_id |-> Str(u)]
LoginError == Reply("LoginError")
LoginRaise == Reply("raise")
LoginResponses == {LoginOk("t1", "d1", "@bot:matrix.org"),
                   LoginOk("t2", "d2", "@bot:matrix.org"),
                   LoginOk("t3-longer", "d3", "@bot:matrix.org"),
                   LoginError, LoginRaise}

Outcomes == {"ok", "error", "raise"}   \* of keys_upload, sync, room_send

VARIABLES
    dir,        \* the store directory exists
    file,       \* content of <store_path>/credentials.json
    file0,      \* the content the file had before any process ran
    client,     \* client[p]: self.client of the instance of process p
    orphans,    \* orphans[p]: clients replaced by a later start(), never closed
    pc,         \* pc[p]: "off", "idle", or the collaborator call awaited
    op,         \* op[p]: the public coroutine running or last run
    result,     \* result[p]: how op[p] ended ("running" while it runs)
    trace,      \* trace[p]: what the current or last start() did, in order
    calls,      \* calls[p]: collaborator and store calls made so far, by name
    msg,        \* msg[p]: body of the room message in flight or last sent
    started,    \* started[p]: how the last start() of this instance ended
    reply,      \* reply[p]: what the collaborator answered last
    probe,      \* the last direct save_credentials / load_credentials call
    seen,       \* seen[p]: the file content the last load_credentials of p read
    budget      \* budget[p]: start/send/restart/close calls made so far

vars == <<dir, file, file0, client, orphans, pc, op, result, trace, calls,
          msg, started, reply, probe, seen, budget>>

CallNames == {"login", "save", "keys_upload", "load_store", "sync", "room_send"}

\* ------------------------------------------------------- credential store
\* load_credentials: [exc, access_token, device_id, user_id]
load_result(exc, t, d, u) ==
    [exc |-> exc, access_token |-> t, device_id |-> d, user_id |-> u]

\* load_credentials with the parse guarded by a bare `except: pass`
load_credentials_lenient(f) ==
    IF f.st \in {"absent", "invalid", "truncated", "array"}
    THEN load_result("none", None, None, None)
    ELSE load_result("none", dict_get(f.members, "access_token"),
                     dict_get(f.members, "device_id"),
                     dict_get(f.members, "user_id"))

\* load_credentials without the os.path.exists test
load_credentials_no_exists_test(f) ==
    IF f.st = "absent" THEN load_result("FileNotFoundError", None, None, None)
    ELSE IF f.st \in {"invalid", "truncated"}
         THEN load_result("JSONDecodeError", None, None, None)
    ELSE IF f.st = "array" THEN load_result("AttributeError", None, None, None)
    ELSE load_result("none", dict_get(f.members, "access_token"),
                     dict_get(f.members, "device_id"),
                     dict_get(f.members, "user_id"))

load_credentials(f) ==
    IF f.st = "absent" THEN load_result("none", None, None, None)
    ELSE IF f.st \in {"invalid", "truncated"}
         THEN load_result("JSONDecodeError", None, None, None)
    ELSE IF f.st = "array" THEN load_result("AttributeError", None, None, None)
    ELSE load_result("none", dict_get(f.members, "access_token"),
                     dict_get(f.members, "device_id"),
                     dict_get(f.members, "user_id"))

\* what open(credentials_file, "w") and json.dump can do to the caller
SaveOutcomes == {"ok", "open_fails", "write_fails"}

\* save_credentials opening the file in mode "a": the record lands
\* behind whatever the file held
save_credentials_append(d, f, io, access_token, device_id, user_id) ==
    IF ~d \/ io = "open_fails" THEN [file |-> f, exc |-> "OSError"]
    ELSE IF io = "write_fails" THEN [file |-> Invalid, exc |-> "OSError"]
    ELSE [file |-> IF f.st = "absent"
                   THEN json_dump(access_token, device_id, user_id)
                   ELSE Invalid,
          exc |-> "none"]

\* save_credentials: [file, exc].  open(..., "w") fails when the directory
\* is missing or the system refuses, and leaves the file alone; once it has
\* opened, the old content is gone whatever it was, and a failing write
\* leaves unparseable text behind
save_credentials(d, f, io, access_token, device_id, user_id) ==
    IF ~d \/ io = "open_fails" THEN [file |-> f, exc |-> "OSError"]
    ELSE IF io = "write_fails" THEN [file |-> Invalid, exc |-> "OSError"]
    ELSE [file |-> json_dump(access_token, device_id, user_id), exc |-> "none"]

\* a direct call of the store: the arguments of the save that last returned,
\* the exception the last call raised, what the last load returned
NoProbe == [saved |-> <<>>, exc |-> "none", loaded |-> <<>>]

\* ------------------------------------------------------ session manager
initialize_client(access_token, device_id, user_id) ==
    [live |-> TRUE, access_token |-> access_token, device_id |-> device_id,
     user_id |-> PyOr(user_id, USERNAME), store_loaded |-> FALSE,
     synced |-> FALSE, closed |-> FALSE]

\* the test written the wrong way round
needs_login_inverted(c) == ~Falsy(c.access_token)

\* a login on every start()
needs_login_always(c) == TRUE

\* `if not self.client.access_token`
needs_login(c) == Falsy(c.access_token)

\* login() setting the token alone
bind_response_token_only(c, r) == [c EXCEPT !.access_token = r.access_token]

\* the attributes login() sets from a LoginResponse
bind_response(c, r) ==
    [c EXCEPT !.access_token = r.access_token, !.device_id = r.device_id,
              !.user_id = r.user_id]

Bump(p, names) ==
    [calls EXCEPT ![p] = [n \in CallNames |->
                            IF n \in names THEN calls[p][n] + 1 ELSE calls[p][n]]]

Spend(p, what) == [budget EXCEPT ![p][what] = @ + 1]

\* load_and_sync_client without its load_store() line
EnterSync_no_load_store(p, c, tr) ==
    /\ client' = [client EXCEPT ![p] = c]
    /\ trace' = [trace EXCEPT ![p] = tr \o <<"sync">>]
    /\ pc' = [pc EXCEPT ![p] = "sync"]

\* load_and_sync_client up to its await: load_store(), then sync is called
EnterSync(p, c, tr) ==
    /\ client' = [client EXCEPT ![p] = [c EXCEPT !.store_loaded = TRUE]]
    /\ trace' = [trace EXCEPT ![p] = tr \o <<"load_store", "sync">>]
    /\ pc' = [pc EXCEPT ![p] = "sync"]

\* a coroutine ends: back to the caller with its outcome
Finish(p, how) ==
    /\ pc' = [pc EXCEPT ![p] = "idle"]
    /\ result' = [result EXCEPT ![p] = how]

\* start() from its call to its first await (or to the exception ending it)
Start(p) ==
    /\ pc[p] = "idle"
    /\ budget[p].start < MaxStarts
    /\ budget' = Spend(p, "start")
    /\ op' = [op EXCEPT ![p] = "start"]
    /\ dir' = TRUE
    /\ seen' = [seen EXCEPT ![p] = file]
    /\ UNCHANGED <<file, file0, probe, msg, reply>>
    /\ LET l == load_credentials(file)
           c == initialize_client(l.access_token, l.device_id, l.user_id)
       IN  IF l.exc # "none"
           THEN /\ Finish(p, l.exc)
                /\ started' = [started EXCEPT ![p] = "failed"]
                /\ trace' = [trace EXCEPT ![p] = <<"load_credentials">>]
                /\ UNCHANGED <<client, orphans, calls>>
           ELSE /\ orphans' = [orphans EXCEPT ![p] =
                                 IF client[p].live /\ ~client[p].closed
                                 THEN @ + 1 ELSE @]
                /\ started' = [started EXCEPT ![p] = "running"]
                /\ result' = [result EXCEPT ![p] = "running"]
                /\ IF needs_login(c)
                   THEN /\ client' = [client EXCEPT ![p] = c]
                        /\ trace' = [trace EXCEPT ![p] =
                              <<"load_credentials", "initialize_client", "login">>]
                        /\ pc' = [pc EXCEPT ![p] = "login"]
                        /\ calls' = Bump(p, {"login"})
                   ELSE /\ EnterSync(p, c, <<"load_credentials", "initialize_client">>)
                        /\ calls' = Bump(p, {"load_store", "sync"})

\* no test of the response's type
is_login_response_unchecked(r) == TRUE

\* `isinstance(response, LoginResponse)`
is_login_response(r) == r.kind = "LoginResponse"

\* the save_credentials call of login() inside a try whose except passes
Saved_swallowed(r, io) ==
    [file |-> save_credentials(dir, file, io, r.access_token, r.device_id,
                               r.user_id).file,
     exc |-> "none"]

\* the save_credentials call of login()
Saved(r, io) ==
    save_credentials(dir, file, io, r.access_token, r.device_id, r.user_id)

\* login() from the return of client.login to its next await or its end
LoginReturn(p, r, io) ==
    /\ pc[p] = "login"
    /\ reply' = [reply EXCEPT ![p] = r]
    /\ UNCHANGED <<dir, file0, probe, seen, orphans, op, msg, budget>>
    /\ IF r.kind = "raise"
       THEN /\ Finish(p, "CollaboratorError")
            /\ started' = [started EXCEPT ![p] = "failed"]
            /\ UNCHANGED <<file, client, trace, calls>>
       ELSE IF is_login_response(r)
       THEN /\ client' = [client EXCEPT ![p] = bind_response(@, r)]
            /\ file' = Saved(r, io).file
            /\ IF Saved(r, io).exc = "none"
               THEN /\ trace' = [trace EXCEPT ![p] =
                          @ \o <<"bind", "save_credentials", "keys_upload">>]
                    /\ calls' = Bump(p, {"save", "keys_upload"})
                    /\ pc' = [pc EXCEPT ![p] = "keys_upload"]
                    /\ UNCHANGED <<result, started>>
               ELSE /\ trace' = [trace EXCEPT ![p] =
                          @ \o <<"bind", "save_credentials">>]
                    /\ calls' = Bump(p, {"save"})
                    /\ Finish(p, "OSError")
                    /\ started' = [started EXCEPT ![p] = "failed"]
       ELSE /\ Finish(p, "MatrixLoginError")
            /\ started' = [started EXCEPT ![p] = "failed"]
            /\ UNCHANGED <<file, client, trace, calls>>

\* login() seen from another process: save_credentials is not one step of
\* the file system.  This is login() from the return of client.login up to
\* the open(..., "w") of save_credentials, which empties the file
LoginReturnOpen(p, r, io) ==
    IF r.kind # "raise" /\ is_login_response(r) /\ Saved(r, io).exc = "none"
    THEN /\ pc[p] = "login"
         /\ reply' = [reply EXCEPT ![p] = r]
         /\ client' = [client EXCEPT ![p] = bind_response(@, r)]
         /\ file' = Truncated
         /\ trace' = [trace EXCEPT ![p] = @ \o <<"bind", "save_credentials">>]
         /\ calls' = Bump(p, {"save"})
         /\ pc' = [pc EXCEPT ![p] = "save_write"]
         /\ UNCHANGED <<dir, file0, probe, seen, orphans, op, msg, budget,
                        result, started>>
    ELSE LoginReturn(p, r, io)

\* json.dump and the close of the file in save_credentials, then login() up
\* to its await on keys_upload
SaveWrite(p, io) ==
    /\ pc[p] = "save_write"
    /\ UNCHANGED <<dir, file0, probe, seen, orphans, op, msg, budget, client,
                   reply>>
    /\ IF io = "write_fails"
       THEN /\ file' = Invalid
            /\ Finish(p, "OSError")
            /\ started' = [started EXCEPT ![p] = "failed"]
            /\ UNCHANGED <<trace, calls>>
       ELSE /\ file' \in Overlay(file, json_dump(reply[p].access_token,
                                                  reply[p].device_id,
                                                  reply[p].user_id))
            /\ trace' = [trace EXCEPT ![p] = @ \o <<"keys_upload">>]
            /\ calls' = Bump(p, {"keys_upload"})
            /\ pc' = [pc EXCEPT ![p] = "keys_upload"]
            /\ UNCHANGED <<result, started>>

\* the end of login() after keys_upload returned, then load_and_sync_client
\* up to its await; a returned error response is not looked at
KeysUploadReturn(p, o) ==
    /\ pc[p] = "keys_upload"
    /\ reply' = [reply EXCEPT ![p] = Reply(o)]
    /\ UNCHANGED <<dir, file, file0, probe, seen, orphans, op, msg, budget>>
    /\ IF o = "raise"
       THEN /\ Finish(p, "CollaboratorError")
            /\ started' = [started EXCEPT ![p] = "failed"]
            /\ UNCHANGED <<client, trace, calls>>
       ELSE /\ EnterSync(p, client[p], trace[p])
            /\ calls' = Bump(p, {"load_store", "sync"})
            /\ UNCHANGED <<result, started>>

\* the end of load_and_sync_client and of start(); the value sync returned
\* is dropped
SyncReturn(p, o) ==
    /\ pc[p] = "sync"
    /\ reply' = [reply EXCEPT ![p] = Reply(o)]
    /\ UNCHANGED <<dir, file, file0, probe, seen, orphans, op, msg, trace, calls, budget>>
    /\ client' = [client EXCEPT ![p].synced = (o = "ok")]
    /\ Finish(p, IF o = "raise" THEN "CollaboratorError" ELSE "ok")
    /\ started' = [started EXCEPT ![p] = IF o = "raise" THEN "failed" ELSE "ok"]

\* send_message() up to its await on client.room_send
Send(p, m) ==
    /\ pc[p] = "idle"
    /\ budget[p].send < MaxSends
    /\ budget' = Spend(p, "send")
    /\ op' = [op EXCEPT ![p] = "send_message"]
    /\ UNCHANGED <<dir, file, file0, probe, seen, client, orphans, trace, started, reply>>
    /\ IF ~client[p].live
       THEN /\ Finish(p, "AttributeError")
            /\ UNCHANGED <<msg, calls>>
       ELSE /\ pc' = [pc EXCEPT ![p] = "room_send"]
            /\ result' = [result EXCEPT ![p] = "running"]
            /\ msg' = [msg EXCEPT ![p] = m]
            /\ calls' = Bump(p, {"room_send"})

\* the end of send_message(); the value room_send returned is dropped
RoomSendReturn(p, o) ==
    /\ pc[p] = "room_send"
    /\ reply' = [reply EXCEPT ![p] = Reply(o)]
    /\ Finish(p, IF o = "raise" THEN "CollaboratorError" ELSE "ok")
    /\ UNCHANGED <<dir, file, file0, probe, seen, client, orphans, op, msg, trace, calls,
                   started, budget>>

\* close()
Close(p) ==
    /\ pc[p] = "idle"
    /\ budget[p].close < MaxCloses
    /\ budget' = Spend(p, "close")
    /\ op' = [op EXCEPT ![p] = "close"]
    /\ UNCHANGED <<dir, file, file0, probe, seen, orphans, pc, msg, trace, calls, started,
                   reply>>
    /\ IF ~client[p].live
       THEN /\ result' = [result EXCEPT ![p] = "AttributeError"]
            /\ UNCHANGED client
       ELSE /\ result' = [result EXCEPT ![p] = "ok"]
            /\ client' = [client EXCEPT ![p].closed = TRUE]

\* the process ends (at any point) and a new one is launched on the same
\* store directory: __init__ runs again, the disk is what it was
Restart(p) ==
    /\ pc[p] # "off"
    /\ budget[p].restart < MaxRestarts
    /\ budget' = Spend(p, "restart")
    /\ pc' = [pc EXCEPT ![p] = "idle"]
    /\ client' = [client EXCEPT ![p] = NoClient]
    /\ orphans' = [orphans EXCEPT ![p] = 0]
    /\ op' = [op EXCEPT ![p] = "none"]
    /\ result' = [result EXCEPT ![p] = "none"]
    /\ trace' = [trace EXCEPT ![p] = <<>>]
    /\ msg' = [msg EXCEPT ![p] = ""]
    /\ started' = [started EXCEPT ![p] = "never"]
    /\ reply' = [reply EXCEPT ![p] = Reply("none")]
    /\ seen' = [seen EXCEPT ![p] = Unread]
    /\ UNCHANGED <<dir, file, file0, probe, calls>>

\* save_credentials called directly
StoreSave(a, b, c, io) ==
    LET sv == save_credentials(dir, file, io, a, b, c)
    IN  /\ file' = sv.file
        /\ probe' = [saved |-> IF sv.exc = "none" THEN <<a, b, c>> ELSE <<>>,
                      exc |-> sv.exc, loaded |-> <<>>]
        /\ UNCHANGED <<dir, file0, client, orphans, pc, op, result, trace,
                       calls, msg, started, reply, seen, budget>>

\* load_credentials called directly: os.makedirs(..., exist_ok=True) first
StoreLoad ==
    LET l == load_credentials(file)
    IN  /\ dir' = TRUE
        /\ probe' = [probe EXCEPT !.exc = l.exc, !.loaded = <<l>>]
        /\ UNCHANGED <<file, file0, client, orphans, pc, op, result, trace,
                       calls, msg, started, reply, seen, budget>>

\* the arguments the store is called with directly
StoreArgs == {Str("t1"), Str("null"), Str(""), None}

InitFiles ==
    { Absent, Invalid, NotObject,
      json_dump(Str("t0"), Str("d0"), Str("@bot:matrix.org")),
      json_dump(Str(""), Str("d0"), Str("@bot:matrix.org")),
      Object(<< Member("access_token", JStr("t0")) >>),
      Object(<< Member("device_id", JStr("d0")), Member("user_id", JNull) >>) }

InitCommon ==
    /\ file \in InitFiles
    /\ file0 = file
    /\ dir \in (IF file = Absent THEN BOOLEAN ELSE {TRUE})
    /\ client = [p \in Procs |-> NoClient]
    /\ orphans = [p \in Procs |-> 0]
    /\ op = [p \in Procs |-> "none"]
    /\ result = [p \in Procs |-> "none"]
    /\ trace = [p \in Procs |-> <<>>]
    /\ calls = [p \in Procs |-> [n \in CallNames |-> 0]]
    /\ msg = [p \in Procs |-> ""]
    /\ started = [p \in Procs |-> "never"]
    /\ reply = [p \in Procs |-> Reply("none")]
    /\ probe = NoProbe
    /\ seen = [p \in Procs |-> Unread]
    /\ budget = [p \in Procs |-> [start |-> 0, send |-> 0, restart |-> 0, close |-> 0]]

\* one process drives one session serially
Init ==
    /\ InitCommon
    /\ pc = [p \in Procs |-> IF p = 1 THEN "idle" ELSE "off"]

Next ==
    \/ \E p \in Procs : Start(p)
    \/ \E p \in Procs, r \in LoginResponses, io \in SaveOutcomes : LoginReturn(p, r, io)
    \/ \E p \in Procs, o \in Outcomes : KeysUploadReturn(p, o)
    \/ \E p \in Procs, o \in Outcomes : SyncReturn(p, o)
    \/ \E p \in Procs, m \in Msgs : Send(p, m)
    \/ \E p \in Procs, o \in Outcomes : RoomSendReturn(p, o)
    \/ \E p \in Procs : Close(p)
    \/ \E p \in Procs : Restart(p)

Spec == Init /\ [][Next]_vars

\* the credential store on its own: no session runs, the store's two
\* operations are called in any order with any arguments
InitStore ==
    /\ InitCommon
    /\ pc = [p \in Procs |-> "off"]

NextStore ==
    \/ \E a \in StoreArgs, b \in StoreArgs, c \in StoreArgs, io \in SaveOutcomes :
          StoreSave(a, b, c, io)
    \/ StoreLoad

SpecStore == InitStore /\ [][NextStore]_vars

\* two processes on one store directory, each driving its own session
InitRace ==
    /\ InitCommon
    /\ pc = [p \in Procs |-> "idle"]

NextRace ==
    \/ \E p \in Procs : Start(p)
    \/ \E p \in Procs, r \in LoginResponses, io \in {"ok", "open_fails"} :
          LoginReturnOpen(p, r, io)
    \/ \E p \in Procs, io \in {"ok", "write_fails"} : SaveWrite(p, io)
    \/ \E p \in Procs, o \in Outcomes : KeysUploadReturn(p, o)
    \/ \E p \in Procs, o \in Outcomes : SyncReturn(p, o)

SpecRace == InitRace /\ [][NextRace]_vars

\* ---------------------------------------------------------------- claims
Has(seq, e) == \E i \in DOMAIN seq : seq[i] = e
Count(seq, e) == Cardinality({i \in DOMAIN seq : seq[i] = e})

CredentialKeys == {"access_token", "device_id", "user_id"}

\* the file holds a JSON object in which each of the three keys is present
\* and is a non-empty string wherever it occurs
ValidRecord(f) ==
    /\ f.st = "object"
    /\ \A k \in CredentialKeys :
          /\ \E i \in DOMAIN f.members : f.members[i].key = k
          /\ \A i \in DOMAIN f.members :
                f.members[i].key = k =>
                    f.members[i].val.j = "str" /\ f.members[i].val.s # ""

\* the step is process p entering start()
IsStart(p) == budget'[p].start = budget[p].start + 1

EmptyTriple == load_result("none", None, None, None)

FreshTrace == <<"load_credentials", "initialize_client", "login", "bind",
                "save_credentials", "keys_upload", "load_store", "sync">>
CachedTrace == <<"load_credentials", "initialize_client", "load_store", "sync">>

\* C1: while a valid credential record (all three fields non-empty) is on
\* disk, no step of any process, a start() on the same or on a restarted
\* instance included, calls the collaborator's login: the login call count
\* stays where it was.
C1_NoLoginWithCachedRecord ==
    [][ValidRecord(file) => \A p \in Procs : calls'[p].login = calls[p].login]_vars

\* a first start() on an empty store logged in once; the process was then
\* restarted and its second start() completed without a login
C1_Witness ==
    /\ file0 = Absent
    /\ budget[1].start = 2 /\ budget[1].restart = 1
    /\ started[1] = "ok"
    /\ ~Has(trace[1], "login")
    /\ calls[1].login = 1

\* C2: when client.login returns an error response, start() ends there with
\* MatrixLoginError: no save_credentials, no keys_upload, no load_store, no
\* sync, and the credentials file is what it was.
C2_LoginFailurePath ==
    [][\A p \in Procs :
          (pc[p] = "login" /\ pc'[p] # "login" /\ reply'[p].kind = "LoginError")
          => /\ result'[p] = "MatrixLoginError"
             /\ pc'[p] = "idle"
             /\ started'[p] = "failed"
             /\ file' = file
             /\ calls'[p] = calls[p]
             /\ trace'[p] = trace[p]]_vars

C2_Witness ==
    /\ op[1] = "start"
    /\ result[1] = "MatrixLoginError"
    /\ reply[1].kind = "LoginError"
    /\ file = file0

\* C3 (as claimed): a room message is handed to the collaborator only by an
\* instance whose last start() completed successfully.
C3_SendOnlyAfterSuccessfulStart ==
    \A p \in Procs : pc[p] = "room_send" => started[p] = "ok"

\* C4: a save_credentials(a, b, c) that returned, followed by
\* load_credentials on the same directory, gives back (a, b, c) when the
\* three are non-empty strings, whatever the file held before the save.
C4_RoundTrip ==
    (/\ probe.saved # <<>>
     /\ probe.loaded # <<>>
     /\ \A i \in 1..3 : ~Falsy(probe.saved[i]))
    => probe.loaded[1] =
          load_result("none", probe.saved[1], probe.saved[2], probe.saved[3])

\* a record was on disk, another one was saved over it and loaded back
C4_Witness ==
    /\ ValidRecord(file0)
    /\ probe.saved = <<Str("t1"), Str("null"), Str("t1")>>
    /\ probe.loaded # <<>>
    /\ probe.loaded[1].device_id = Str("null")

\* C5: a start() that logged in and completed did, in this order and once
\* each: login, bind, save_credentials, keys_upload, load_store, sync; the
\* client holds the triple of the response and the file holds exactly that
\* triple.
C5_FreshLogin ==
    /\ [](\A p \in Procs :
            (started[p] = "ok" /\ Has(trace[p], "login"))
            => /\ trace[p] = FreshTrace
               /\ file = json_dump(client[p].access_token, client[p].device_id,
                                   client[p].user_id))
    /\ [][\A p \in Procs :
            (pc[p] = "login" /\ pc'[p] = "keys_upload")
            => /\ reply'[p].kind = "LoginResponse"
               /\ client'[p].access_token = reply'[p].access_token
               /\ client'[p].device_id = reply'[p].device_id
               /\ client'[p].user_id = reply'[p].user_id
               /\ file' = json_dump(reply'[p].access_token, reply'[p].device_id,
                                    reply'[p].user_id)
               /\ calls'[p].keys_upload = calls[p].keys_upload + 1
               /\ calls'[p].save = calls[p].save + 1
               /\ calls'[p].sync = calls[p].sync]_vars

C5_Witness ==
    /\ file0 = Absent
    /\ started[1] = "ok"
    /\ trace[1] = FreshTrace
    /\ client[1].access_token = Str("t2")
    /\ file = json_dump(Str("t2"), Str("d2"), Str("@bot:matrix.org"))

\* C6: a start() calls login once when the token it loaded is None or
\* empty and not at all otherwise; no other step calls login (no retry);
\* a start() that loaded a token keeps that token on the client and leaves
\* the file alone, up to and including its completion.
C6_LoginTrigger ==
    [][\A p \in Procs :
          LET l == load_credentials(file)
              empty == l.exc = "none" /\ Falsy(l.access_token)
              cached == l.exc = "none" /\ ~Falsy(l.access_token)
          IN  /\ IsStart(p) =>
                    calls'[p].login = calls[p].login + (IF empty THEN 1 ELSE 0)
              /\ (IsStart(p) /\ cached) =>
                    /\ client'[p].access_token = l.access_token
                    /\ file' = file
              /\ ~IsStart(p) => calls'[p].login = calls[p].login
              /\ (pc[p] = "sync" /\ ~Has(trace[p], "login") /\ pc'[p] = "idle"
                    /\ started'[p] # "never") =>
                    /\ client'[p].access_token = client[p].access_token
                    /\ file' = file]_vars

\* two start() calls, each rejected by the homeserver, made two login calls
C6_Witness ==
    /\ budget[1].start = 2
    /\ calls[1].login = 2
    /\ result[1] = "MatrixLoginError"

\* C7: a start() that finds a credentials file that is no JSON object
\* (unparseable text, or JSON of another shape) ends at once with the
\* exception of the load (JSONDecodeError for unparseable text): no login,
\* no other call, the file and the client untouched.
C7_CorruptedFile ==
    [][\A p \in Procs :
          (IsStart(p) /\ file.st \in {"invalid", "array"})
          => /\ result'[p] = (IF file.st = "invalid" THEN "JSONDecodeError"
                              ELSE "AttributeError")
             /\ pc'[p] = "idle"
             /\ started'[p] = "failed"
             /\ calls'[p] = calls[p]
             /\ client'[p] = client[p]
             /\ file' = file]_vars

C7_Witness ==
    /\ op[1] = "start"
    /\ result[1] = "JSONDecodeError"
    /\ file = Invalid
    /\ calls[1].login = 0
    /\ ~client[1].live

\* C8: load_credentials on a store directory that is missing or holds no
\* credentials file returns (None, None, None), leaves the directory
\* existing and creates no file.
C8_FirstRun ==
    [][(file = Absent /\ probe'.loaded # <<>>)
       => /\ probe'.loaded[1] = EmptyTriple
          /\ dir'
          /\ file' = Absent]_vars

C8_Witness ==
    /\ file0 = Absent
    /\ probe.saved = <<>>
    /\ probe.loaded = <<EmptyTriple>>
    /\ file = Absent
    /\ dir

\* C9 (as claimed): whenever a room message is accepted, the client either
\* has no token or has its store loaded and a full sync completed.
C9_TokenBoundOnlyWhenReady ==
    \A p \in Procs :
        pc[p] = "room_send" =>
            \/ Falsy(client[p].access_token)
            \/ client[p].store_loaded /\ client[p].synced

\* C10: a start() that completed called load_store once and then sync once,
\* as its last two steps, after the login if there was one.
C10_SyncMandatory ==
    \A p \in Procs :
        started[p] = "ok" =>
            /\ Count(trace[p], "load_store") = 1
            /\ Count(trace[p], "sync") = 1
            /\ Len(trace[p]) >= 2
            /\ SubSeq(trace[p], Len(trace[p]) - 1, Len(trace[p])) = <<"load_store", "sync">>
            /\ client[p].store_loaded
            /\ calls[p].sync >= 1 /\ calls[p].load_store >= 1

\* a start() on a cached record completed after load_store and sync
C10_Witness ==
    /\ started[1] = "ok"
    /\ trace[1] = CachedTrace
    /\ client[1].synced
\* C11 (as claimed): no room message is handed to the collaborator by a
\* started instance whose client has been closed.
C11_NoSendAfterClose ==
    \A p \in Procs :
        (pc[p] = "room_send" /\ started[p] = "ok") => ~client[p].closed

\* C12 (as claimed): a close() call, made in whatever state the instance is
\* in (never started and failed start included), ends with the client
\* closed.
C12_CloseFromAnyState ==
    \A p \in Procs :
        op[p] = "close" => result[p] = "ok" /\ client[p].live /\ client[p].closed

\* C13 (as claimed): a send_message() on a ready session whose room_send
\* came back with an error response, or raised, does not end as a success.
C13_SendFailureSurfaced ==
    \A p \in Procs :
        (/\ op[p] = "send_message" /\ pc[p] = "idle"
         /\ started[p] = "ok" /\ client[p].synced
         /\ reply[p].kind \in {"error", "raise"})
        => result[p] # "ok"
\* C14 (as claimed): no load_credentials reads the file in the state a
\* save_credentials in progress has put it in, emptied and not yet written.
C14_NoHalfWrittenRead ==
    \A q \in Procs : seen[q].st # "truncated"
\* C15 (as claimed): starting from an absent file, the credentials file is
\* always either absent or a record with all three fields non-empty.
C15_RecordAllOrNothing ==
    file0 = Absent => (file = Absent \/ ValidRecord(file))

\* C16 (as claimed): a start() whose sync came back with an error response,
\* or raised, does not end as a success.
C16_SyncFailureSurfaced ==
    \A p \in Procs :
        (/\ op[p] = "start" /\ pc[p] = "idle"
         /\ Has(trace[p], "sync")
         /\ reply[p].kind \in {"error", "raise"})
        => result[p] # "ok" /\ started[p] # "ok"

\* C17: when client.login returned a LoginResponse and save_credentials did
\* not write the record, start() ends there with OSError: one
\* save_credentials call, no keys_upload, no load_store, no sync, no second
\* login.
C17_WriteFailureDuringLogin ==
    [][\A p \in Procs :
          (/\ pc[p] = "login" /\ pc'[p] # "login"
           /\ reply'[p].kind = "LoginResponse"
           /\ file' # json_dump(reply'[p].access_token, reply'[p].device_id,
                                reply'[p].user_id))
          => /\ result'[p] = "OSError"
             /\ pc'[p] = "idle"
             /\ started'[p] = "failed"
             /\ calls'[p].save = calls[p].save + 1
             /\ calls'[p].keys_upload = calls[p].keys_upload
             /\ calls'[p].load_store = calls[p].load_store
             /\ calls'[p].sync = calls[p].sync
             /\ calls'[p].login = calls[p].login]_vars

\* the write failed after the file was opened
C17_Witness ==
    /\ op[1] = "start"
    /\ result[1] = "OSError"
    /\ reply[1].kind = "LoginResponse"
    /\ file0 = Absent /\ file = Invalid
    /\ calls[1].keys_upload = 0 /\ calls[1].sync = 0

\* C18: the credentials file changes only in the step of login() that
\* follows a LoginResponse, in a start() whose load found no access token;
\* every other step (load, cached start, send, close, restart) leaves it as
\* it is, and no step removes it.
C18_FileFrame ==
    [][/\ file' # file =>
            \E p \in Procs :
                /\ pc[p] = "login"
                /\ reply'[p].kind = "LoginResponse"
                /\ op[p] = "start"
                /\ Falsy(load_credentials(seen[p]).access_token)
       /\ file.st # "absent" => file'.st # "absent"]_vars

\* a cached start, a send and a close went by and the record is the
\* one that was there at the beginning
C18_Witness ==
    /\ ValidRecord(file0)
    /\ file = file0
    /\ started[1] = "ok"
    /\ budget[1].send = 1 /\ result[1] = "ok"
    /\ client[1].closed

\* C19 (as claimed): an instance holds at most one client that was created
\* and not closed.
C19_OneOpenClient ==
    \A p \in Procs :
        orphans[p] + (IF client[p].live /\ ~client[p].closed THEN 1 ELSE 0) <= 1
\* the triple on the client of p is the one the file holds
BoundIsPersisted(p) ==
    file = json_dump(client[p].access_token, client[p].device_id,
                     client[p].user_id)

\* p's last start() logged in and completed, and its sync succeeded
ReadyByLogin(p) ==
    started[p] = "ok" /\ client[p].synced /\ Has(trace[p], "login")

\* C20 (as claimed), the race: when both processes have logged in and are
\* ready, the file holds the complete record of one of them, the last
\* writer; the other one is the loser.
C20_LastWriterWins ==
    (ReadyByLogin(1) /\ ReadyByLogin(2))
    => (BoundIsPersisted(1) \/ BoundIsPersisted(2))

\* C20, sequential use: one process and its restarts on a store that was
\* empty or held a full record; whenever the session is ready the client
\* holds the persisted triple.
C20_SequentialIdentity ==
    \A p \in Procs :
        ((file0 = Absent \/ ValidRecord(file0))
         /\ started[p] = "ok" /\ client[p].synced)
        => BoundIsPersisted(p)
====
